---------------------------- MODULE Spec2Model ----------------------------
(***************************************************************************)
(* A model of mujinwebstackclient/webstackgraphclientutils.py: the paging  *)
(* iterator GraphQueryIterator, the paged container GraphQueryResult, the  *)
(* adapter UseGraphQueryResult and GraphClientBase._CallSimpleGraphAPI.    *)
(*                                                                         *)
(* Python dictionaries that can be aliased (the `options` dictionary of a  *)
(* keyword-argument set) live in `heap`, addressed by reference, so that   *)
(* copy.deepcopy is an allocation and a missing copy is an alias.          *)
(* The dataset served by the query function is static: the item at         *)
(* 0-based position p is the integer p + 1.                                *)
(***************************************************************************)
EXTENDS Integers, Sequences, FiniteSets, TLC

\* ------------------------------------------------------------- bounds
MaxData == 4        \* dataset sizes 0..MaxData
MaxPage == 2        \* webstackclientutils.maxQueryLimit ranges over 1..MaxPage
MaxFirst == 3       \* caller-supplied options.first ranges over 0..MaxFirst
MaxOffset == 1      \* caller-supplied options.offset ranges over 0..MaxOffset
MaxDepth == 2       \* page fetches one next() call may make through its tail call
\* Answered page fetches per iterator: a full run over MaxData items with
\* pages of one item and its last (empty) page, and one more.
MaxFetches == MaxData + 2
\* next() calls of one FetchAll: every item, then StopIteration.
DrainFuel == MaxData + 2

\* ------------------------------------------------------------- values
\* Python's None for an integer attribute (_totalCount) and a dictionary
\* key that is missing (options without 'offset' / 'first').
None == -1
\* Python's None for _keyName.
NoKey == "None"
\* The value of a scalar response's '__typename' entry, e.g. "Body".
TypenameValue == 0
\* The data key of a list response, e.g. 'bodies'.
DataKey == "bodies"

Min(a, b) == IF a <= b THEN a ELSE b
Max(a, b) == IF a >= b THEN a ELSE b

\* s[:n] of Python, for any integer n.
PySliceTo(s, n) ==
    IF n >= 0 THEN SubSeq(s, 1, Min(n, Len(s)))
    ELSE SubSeq(s, 1, Max(0, Len(s) + n))

\* s[1:] of Python.
PyTail(s) == IF Len(s) = 0 THEN << >> ELSE Tail(s)

VARIABLES
    maxQueryLimit,  \* webstackclientutils.maxQueryLimit
    webstack,       \* what the query function serves: [size, kind, meta]
    queryFunction,  \* the function the caller passes: "raw" or "adapted"
    given,          \* the options record as the caller wrote it
    heap,           \* options dictionaries by reference
    iters,          \* GraphQueryIterator (and list iterator) instances
    qr,             \* the GraphQueryResult instance
    response,       \* the mapping returned by the UseGraphQueryResult wrapper
    call,           \* the last _CallSimpleGraphAPI invocation
    obs,            \* per iterator: what its caller has observed
    last            \* the outcome of the last operation

vars == << maxQueryLimit, webstack, queryFunction, given, heap, iters, qr, response,
           call, obs, last >>

IterIds == {"it1", "it2"}
ObsIds == IterIds \cup {"qr"}
Refs == {"caller", "it1", "it2", "qr", "tmp"}
Kinds == {"list", "scalar", "nodata"}

\* ------------------------------------------------- the query function
\* A page of the static dataset: the items at positions o .. min(o+f, D)-1.
Page(D, o, f) == [k \in 1..Max(0, Min(f, D - o)) |-> o + k]

\* The raw response dictionary of one successful call of the paged query
\* function with options `opts`: an optional 'meta' entry, and either a
\* '__typename' entry, one data entry holding a list, or nothing else.
QueryResponse(web, opts) ==
    [ meta       |-> web.meta,
      totalCount |-> IF web.meta THEN web.size ELSE None,
      typename   |-> web.kind = "scalar",
      key        |-> IF web.kind = "list" THEN DataKey ELSE NoKey,
      items      |-> IF web.kind = "list"
                     THEN Page(web.size, opts.offset, opts.first)
                     ELSE << >> ]

\* --------------------------------------------------- keyword arguments
\* copy.deepcopy(kwargs): the copy of the options dictionary at `src` is a
\* new object, at reference `fresh`.  One definition per call site:
\* GraphQueryIterator.__init__, GraphQueryResult.__init__ and
\* GraphQueryResult._APICall.
AliasedRef(src, fresh) == src
IterKwargsRef(src, fresh) == fresh
ResultKwargsRef(src, fresh) == fresh
APICallKwargsRef(src, fresh) == fresh

\* The heap once the dictionaries at `refs` are garbage.
Collect(h, refs) ==
    [r \in DOMAIN h |->
        IF r \in refs THEN [none |-> TRUE, offset |-> None, first |-> None]
        ELSE h[r]]

\* if kwargs.get('options') is None: options = {'offset': 0, 'first': 0};
\* options.setdefault('offset', 0); options.setdefault('first', 0)
DefaultOptions(o) == [none |-> FALSE, offset |-> 0, first |-> 0]
NormalizeOptions(o) ==
    IF o.none THEN [none |-> FALSE, offset |-> 0, first |-> 0]
    ELSE [none   |-> FALSE,
          offset |-> IF o.offset = None THEN 0 ELSE o.offset,
          first  |-> IF o.first = None THEN 0 ELSE o.first]

\* The per-page `first`: min(first, maxQueryLimit) when first > 0, else
\* maxQueryLimit.
UnclampedFirst(first, mql) == IF first > 0 THEN first ELSE mql
ClampFirst(first, mql) == IF first > 0 THEN Min(first, mql) ELSE mql

\* hasattr(queryFunction, "inner"): an adapted function is unwrapped and its
\* receiver becomes the first positional argument.
InnerFunction(fn) == IF fn = "adapted" THEN "raw" ELSE fn
InnerArgs(fn, args) == IF fn = "adapted" THEN << "self" >> \o args ELSE args

\* ------------------------------------------------ GraphQueryIterator
NoIter ==
    [ kind |-> "unused", queryFunction |-> "none", args |-> << >>,
      kwargs |-> "caller", items |-> << >>, shouldStop |-> FALSE,
      totalLimit |-> 0, count |-> 0, totalCount |-> None, keyName |-> NoKey,
      pos |-> 0 ]

\* GraphQueryIterator.__init__ with the options dictionary at `ref` holding
\* `o` (already the iterator's own copy): the new iterator and the
\* dictionary as __init__ leaves it.  The 'fields' default is not part of
\* the state.
IterInit(fn, args, ref, o, mql) ==
    LET n == NormalizeOptions(o) IN
    [ it   |-> [ kind |-> "paging",
                 queryFunction |-> InnerFunction(fn),
                 args |-> InnerArgs(fn, args),
                 kwargs |-> ref,
                 items |-> << >>, shouldStop |-> FALSE,
                 totalLimit |-> n.first, count |-> 0,
                 totalCount |-> None, keyName |-> NoKey, pos |-> 0 ],
      opts |-> [n EXCEPT !.first = ClampFirst(n.first, mql)] ]

\* 'meta' in rawResponse: self._totalCount = rawResponse['meta']['totalCount']
LenAsTotalCount(r, old) == IF r.meta THEN Len(r.items) ELSE old
MetaTotalCount(r, old) == IF r.meta THEN r.totalCount ELSE old

\* len(self._items) < options['first']: webstack does not have more items.
ShortPageOrFull(items, first) == Len(items) <= first
NeverShort(items, first) == FALSE
ShortPage(items, first) == Len(items) < first

\* self._totalLimit != 0 and self._count + len(self._items) >= self._totalLimit
LimitReached(it, items) ==
    it.totalLimit # 0 /\ it.count + Len(items) >= it.totalLimit

\* self._items[:self._totalLimit - self._count]
KeepAll(it, items) == items
Truncate(it, items) == PySliceTo(items, it.totalLimit - it.count)

\* self._kwargs['options']['offset'] += len(self._items)
SameOffset(opts, items) == opts
AdvanceOffset(opts, items) ==
    [opts EXCEPT !.offset = opts.offset + Len(items)]

\* The query function raised: nothing catches it, next() raises it.
SwallowError(it, opts, done) ==
    [it |-> it, opts |-> opts, result |-> "stop", item |-> None,
     fetches |-> done + 1]
RaiseAfterAdvance(it, opts, done) ==
    [it |-> it, opts |-> [opts EXCEPT !.offset = opts.offset + opts.first],
     result |-> "error", item |-> None, fetches |-> done + 1]
RaiseError(it, opts, done) ==
    [it |-> it, opts |-> opts, result |-> "error", item |-> None,
     fetches |-> done + 1]

\* GraphQueryIterator.next(): `done` page fetches were made so far by the
\* operation this call belongs to, and the fetch numbered `failAt` raises
\* (0: none does).  The result is "item" (with the item), "stop"
\* (StopIteration), "error" (the query function's error) or "recursion"
\* (the tail call chain exceeded MaxDepth fetches).
RECURSIVE IterNext(_, _, _, _, _, _)
IterNext(it, opts, web, done, failAt, depth) ==
    IF Len(it.items) # 0 THEN
        [it |-> [it EXCEPT !.items = PyTail(it.items), !.count = it.count + 1],
         opts |-> opts, result |-> "item", item |-> it.items[1],
         fetches |-> done]
    ELSE IF it.shouldStop THEN
        [it |-> it, opts |-> opts, result |-> "stop", item |-> None,
         fetches |-> done]
    ELSE IF depth = 0 THEN
        [it |-> it, opts |-> opts, result |-> "recursion", item |-> None,
         fetches |-> done]
    ELSE IF failAt = done + 1 THEN RaiseError(it, opts, done)
    ELSE
        LET r == QueryResponse(web, opts)
            it1 == [it EXCEPT !.totalCount = MetaTotalCount(r, it.totalCount)]
        IN
        IF ~r.typename /\ r.key = NoKey THEN
            \* only meta data is queried: raise StopIteration
            [it |-> it1, opts |-> opts, result |-> "stop", item |-> None,
             fetches |-> done + 1]
        ELSE
            LET items == IF r.typename THEN << TypenameValue >> ELSE r.items
                key == IF r.typename THEN "__typename" ELSE r.key
                opts2 == AdvanceOffset(opts, items)
                stop == ShortPage(items, opts2.first) \/ LimitReached(it1, items)
                kept == IF LimitReached(it1, items)
                        THEN Truncate(it1, items) ELSE items
                it2 == [it1 EXCEPT !.keyName = key, !.items = kept,
                                   !.shouldStop = it1.shouldStop \/ stop]
            IN IterNext(it2, opts2, web, done + 1, failAt, depth - 1)


\* ---------------------------------------------------- GraphClientBase
ScalarTypes ==
    {"Int", "Float", "String", "Boolean", "ID", "Data", "Any", "Void",
     "DateTime"}

\* The scalar types GraphQL itself defines, without the custom scalars.
IsBuiltinScalarType(typeName) ==
    typeName \in {"Int", "Float", "String", "Boolean", "ID"}
_IsScalarType(typeName) == typeName \in ScalarTypes

\* A field selection: None, a dict of field name -> sub-selection (in
\* insertion order) or a list of field names.
NoFields == [kind |-> "none", entries |-> << >>]
FieldList(names) ==
    [kind |-> "list",
     entries |-> [k \in 1..Len(names) |-> [name |-> names[k], sub |-> NoFields]]]
FieldDict(entries) == [kind |-> "dict", entries |-> entries]

\* Python truthiness of a selection: None, {} and [] are false.
Truthy(t) == t.kind # "none" /\ Len(t.entries) > 0

\* ', '.join(parts)
RECURSIVE Join(_)
Join(parts) ==
    IF Len(parts) = 0 THEN ""
    ELSE IF Len(parts) = 1 THEN parts[1]
    ELSE parts[1] \o ", " \o Join(Tail(parts))

RECURSIVE _StringifyQueryFields(_)
_StringifyQueryFields(fields) ==
    LET selectedFields ==
            [k \in 1..Len(fields.entries) |->
                LET e == fields.entries[k] IN
                IF fields.kind = "dict" /\ Truthy(e.sub)
                THEN e.name \o " " \o _StringifyQueryFields(e.sub)
                ELSE e.name]
    IN "{" \o Join(selectedFields) \o "}"

\* queryFields of _CallSimpleGraphAPI, before it is placed in the query.
QueryFields(returnType, fields) ==
    IF _IsScalarType(returnType) THEN ""
    ELSE IF ~Truthy(fields) THEN "{ __typename }"
    ELSE _StringifyQueryFields(fields)

\* The query string; params is a sequence of [name, type, value].
QueryString(queryOrMutation, operationName, params, queryFields) ==
    LET decl == Join([k \in 1..Len(params) |->
                        "$" \o params[k].name \o ": " \o params[k].type])
        args == Join([k \in 1..Len(params) |->
                        params[k].name \o ": $" \o params[k].name])
        queryParameters == IF decl # "" THEN "(" \o decl \o ")" ELSE ""
        placed == IF args # "" /\ queryFields # ""
                  THEN " " \o queryFields ELSE queryFields
        queryArguments == IF args # "" THEN "(" \o args \o ")" ELSE ""
    IN queryOrMutation \o " " \o operationName \o queryParameters
       \o " {\n    " \o operationName \o queryArguments \o placed \o "\n}"

\* if timeout is None: timeout = 5.0
DefaultTimeout == 5
EffectiveTimeout(timeout) == IF timeout = None THEN DefaultTimeout ELSE timeout

\* The outcome of self._webclient.CallGraphAPI(...) followed by
\* data.get(operationName); rpc is "error" (it raised), "value" (the
\* response holds operationName) or "missing" (it does not).
RetryThenNone(rpc) ==
    IF rpc = "error" THEN [result |-> "none", attempts |-> 2]
    ELSE [result |-> rpc, attempts |-> 1]
CallOutcome(rpc) ==
    IF rpc = "error" THEN [result |-> "error", attempts |-> 1]
    ELSE IF rpc = "value" THEN [result |-> "value", attempts |-> 1]
    ELSE [result |-> "none", attempts |-> 1]

\* --------------------------------------------------- GraphQueryResult
\* GraphQueryResult._APICall(offset) on container q, whose options
\* dictionary is h[q.kwargs]; `fail`: the query function raises.
APICall(q, h, web, mql, offset, fail) ==
    LET tref == APICallKwargsRef(q.kwargs, "tmp")
        h1 == [h EXCEPT !["tmp"] = h[q.kwargs]]
        k == [h1[tref] EXCEPT !.offset = offset,
                              !.first = ClampFirst(h1[tref].first, mql)]
        h2 == [h1 EXCEPT ![tref] = k]
        r == QueryResponse(web, k)
        q1 == [q EXCEPT !.totalCount = MetaTotalCount(r, q.totalCount)]
        q2 == IF r.typename THEN
                  [q1 EXCEPT !.keyName = "__typename",
                             !.list = << TypenameValue >>,
                             !.fetchedAll = TRUE]
              ELSE IF r.key # NoKey THEN
                  [q1 EXCEPT !.keyName = r.key, !.items = r.items]
              ELSE q1
    IN IF fail
       THEN [qr |-> q, heap |-> Collect(h2, {"tmp"}), result |-> "error",
             req |-> k]
       ELSE [qr |-> [q2 EXCEPT !.currentOffset = offset],
             heap |-> Collect(h2, {"tmp"}), result |-> "ok", req |-> k]

\* GraphQueryResult.__init__(queryFunction, *args, options=<h["caller"]>).
\* The 'fields' selection, to which __init__ adds meta.totalCount, is not
\* part of the state: whether a response carries 'meta' is webstack.meta.
ResultInit(fn, args, h, web, mql, fail) ==
    LET ref == ResultKwargsRef("caller", "qr")
        h1 == [h EXCEPT !["qr"] = h["caller"]]
        n == NormalizeOptions(h1[ref])
        h2 == [h1 EXCEPT ![ref] = n]
        q == [ built |-> TRUE, queryFunction |-> fn, args |-> args,
               kwargs |-> ref, limit |-> n.first, offset |-> n.offset,
               fetchedAll |-> FALSE, totalCount |-> None, keyName |-> NoKey,
               items |-> << >>, list |-> << >>, currentOffset |-> None ]
    IN APICall(q, h2, web, mql, q.offset, fail)

\* The list comprehension of FetchAll: next() until StopIteration.  `acc`
\* holds the items so far and `fuel` bounds the number of next() calls.
RECURSIVE Drain(_, _, _, _, _, _, _)
Drain(it, opts, web, acc, done, failAt, fuel) ==
    IF fuel = 0 THEN
        [result |-> "diverged", items |-> acc, fetches |-> done, opts |-> opts]
    ELSE
        LET r == IterNext(it, opts, web, done, failAt, MaxDepth) IN
        IF r.result = "item" THEN
            Drain(r.it, r.opts, web, Append(acc, r.item), r.fetches, failAt,
                  fuel - 1)
        ELSE
            [result |-> IF r.result = "stop" THEN "ok" ELSE r.result,
             items |-> acc, fetches |-> r.fetches, opts |-> r.opts]

\* if self._fetchedAll: return
AlwaysRefetch(q) == FALSE
AlreadyFetched(q) == q.fetchedAll

\* GraphQueryResult.FetchAll()
FetchAllKeepPartial(q, h, web, mql, failAt, fuel) ==
    IF AlreadyFetched(q) THEN
        [qr |-> q, heap |-> h, result |-> "ok", fetches |-> 0]
    ELSE
        LET ref == IterKwargsRef(q.kwargs, "tmp")
            h1 == [h EXCEPT !["tmp"] = h[q.kwargs]]
            init == IterInit(q.queryFunction, q.args, ref, h1[ref], mql)
            d == Drain(init.it, init.opts, web, << >>, 0, failAt, fuel)
            h2 == Collect([h1 EXCEPT ![ref] = d.opts], {"tmp"})
        IN [qr |-> [q EXCEPT !.list = d.items,
                             !.fetchedAll = (d.result = "ok")],
            heap |-> h2, result |-> d.result, fetches |-> d.fetches]
FetchAllCall(q, h, web, mql, failAt, fuel) ==
    IF AlreadyFetched(q) THEN
        [qr |-> q, heap |-> h, result |-> "ok", fetches |-> 0]
    ELSE
        LET ref == IterKwargsRef(q.kwargs, "tmp")
            h1 == [h EXCEPT !["tmp"] = h[q.kwargs]]
            init == IterInit(q.queryFunction, q.args, ref, h1[ref], mql)
            d == Drain(init.it, init.opts, web, << >>, 0, failAt, fuel)
            h2 == Collect([h1 EXCEPT ![ref] = d.opts], {"tmp"})
        IN IF d.result = "ok"
           THEN [qr |-> [q EXCEPT !.list = d.items, !.fetchedAll = TRUE],
                 heap |-> h2, result |-> "ok", fetches |-> d.fetches]
           ELSE [qr |-> q, heap |-> h2, result |-> d.result,
                 fetches |-> d.fetches]

\* ------------------------------------------------ UseGraphQueryResult
\* if queryResult.totalCount is not None
TruthyTotalCount(q) == q.totalCount # None /\ q.totalCount # 0
HasTotalCount(q) == q.totalCount # None

\* The mapping the wrapper builds from the container.  queryResult[0] is
\* read only when keyName is '__typename', where the container is
\* materialized and holds the scalar.
WrapperResponse(q) ==
    [ made       |-> TRUE,
      typename   |-> IF q.keyName = "__typename" THEN q.list[1] ELSE None,
      key        |-> IF q.keyName # "__typename" /\ q.keyName # NoKey
                     THEN q.keyName ELSE NoKey,
      meta       |-> HasTotalCount(q),
      totalCount |-> IF HasTotalCount(q) THEN q.totalCount ELSE None ]

\* ------------------------------------------------------ initial state
OptionValues ==
    { [none |-> TRUE, offset |-> None, first |-> None] } \cup
    [ none : {FALSE}, offset : {None} \cup (0..MaxOffset),
      first : {None} \cup (0..MaxFirst) ]

NoObs ==
    [ fetches |-> 0, yielded |-> << >>, metaSeen |-> None, stopped |-> FALSE,
      firstReq |-> [offset |-> None, first |-> None], recvd |-> 0,
      firsts |-> {}, offsets |-> << >> ]

NoResult ==
    [ built |-> FALSE, queryFunction |-> "none", args |-> << >>,
      kwargs |-> "qr", limit |-> 0, offset |-> 0, fetchedAll |-> FALSE,
      totalCount |-> None, keyName |-> NoKey, items |-> << >>,
      list |-> << >>, currentOffset |-> None ]

NoResponse ==
    [ made |-> FALSE, typename |-> None, key |-> NoKey, meta |-> FALSE,
      totalCount |-> None ]

NoCall ==
    [ made |-> FALSE, returnType |-> "", fields |-> NoFields,
      queryFields |-> "", query |-> "", variables |-> << >>,
      timeout |-> None, result |-> "none", attempts |-> 0 ]

NoLast ==
    [ op |-> "none", who |-> "none", result |-> "none", item |-> None,
      fetches |-> 0, failedAt |-> 0 ]

EmptyOptions == [none |-> TRUE, offset |-> None, first |-> None]

Init ==
    /\ maxQueryLimit \in 1..MaxPage
    /\ webstack \in [size : 0..MaxData, kind : Kinds, meta : BOOLEAN]
    /\ queryFunction \in {"raw", "adapted"}
    /\ given \in OptionValues
    /\ heap = [r \in Refs |-> IF r = "caller" THEN given ELSE EmptyOptions]
    /\ iters = [i \in IterIds |-> NoIter]
    /\ qr = NoResult
    /\ response = NoResponse
    /\ call = NoCall
    /\ obs = [i \in ObsIds |-> NoObs]
    /\ last = NoLast

\* ------------------------------------------- operations on iterators
\* it = GraphQueryIterator(queryFunction, options=<the caller's record>)
NewIterator(i) ==
    /\ iters[i].kind = "unused"
    /\ LET ref == IterKwargsRef("caller", i)
           heap1 == [heap EXCEPT ![i] = heap["caller"]]
       IN \E init \in {IterInit(queryFunction, << >>, ref, heap1[ref],
                                maxQueryLimit)} :
          /\ heap' = [heap1 EXCEPT ![ref] = init.opts]
          /\ iters' = [iters EXCEPT ![i] = init.it]
    /\ obs' = [obs EXCEPT ![i] = NoObs]
    /\ last' = [NoLast EXCEPT !.op = "new", !.who = i, !.result = "ok"]
    /\ UNCHANGED << maxQueryLimit, webstack, queryFunction, given, qr, response, call >>

\* What the caller of next() on iterator i observes, given the call's
\* outcome r and the request the iterator held before the call.  `fetches`
\* counts the page fetches the query function answered; `firsts` holds the
\* page sizes the call's fetches were issued with, from the first request
\* to the options the last one left; `offsets` the offset each answered
\* fetch was issued with.
Observe(o, r, req, web) ==
    LET ok == r.fetches - (IF r.result = "error" THEN 1 ELSE 0) IN
    [ fetches  |-> o.fetches + ok,
      yielded  |-> IF r.result = "item" THEN Append(o.yielded, r.item)
                   ELSE o.yielded,
      metaSeen |-> IF ok > 0 /\ web.meta THEN web.size ELSE o.metaSeen,
      stopped  |-> o.stopped \/ r.result = "stop",
      firstReq |-> IF o.fetches = 0 /\ ok > 0
                   THEN [offset |-> req.offset, first |-> req.first]
                   ELSE o.firstReq,
      recvd    |-> o.recvd + (r.opts.offset - req.offset),
      firsts   |-> IF r.fetches > 0
                   THEN o.firsts \cup {req.first, r.opts.first}
                   ELSE o.firsts,
      offsets  |-> IF ok > 0 THEN Append(o.offsets, req.offset)
                   ELSE o.offsets ]

\* it.next() on a paging iterator
IteratorNext(i) ==
    /\ iters[i].kind = "paging"
    /\ Len(obs[i].yielded) <= MaxData
    /\ obs[i].fetches < MaxFetches
    /\ \E failAt \in 0..MaxDepth :
        \E r \in {IterNext(iters[i], heap[iters[i].kwargs], webstack, 0,
                            failAt, MaxDepth)} :
        LET it == iters[i]
            req == heap[it.kwargs]
        IN /\ iters' = [iters EXCEPT ![i] = r.it]
           /\ heap' = [heap EXCEPT ![it.kwargs] = r.opts]
           /\ obs' = [obs EXCEPT ![i] = Observe(obs[i], r, req, webstack)]
           /\ last' = [ op |-> "next", who |-> i, result |-> r.result,
                        item |-> r.item, fetches |-> r.fetches,
                        failedAt |-> IF failAt \in 1..r.fetches
                                     THEN failAt ELSE 0 ]
    /\ UNCHANGED << maxQueryLimit, webstack, queryFunction, given, qr, response, call >>

NextIter == NewIterator("it1") \/ IteratorNext("it1")

SpecIter == Init /\ [][NextIter]_vars

\* webstackclientutils.maxQueryLimit = m: the application changes the
\* module's page size maximum.
SetMaxQueryLimit ==
    /\ \E m \in 1..MaxPage :
        /\ m # maxQueryLimit
        /\ maxQueryLimit' = m
    /\ last' = [NoLast EXCEPT !.op = "setLimit", !.who = "module",
                              !.result = "ok"]
    /\ UNCHANGED << webstack, queryFunction, given, heap, iters, qr, response,
                    call, obs >>

\* One iterator, while the application changes maxQueryLimit.
NextLimit == NewIterator("it1") \/ IteratorNext("it1") \/ SetMaxQueryLimit

SpecLimit == Init /\ [][NextLimit]_vars

\* Two call sites paginating the same query.
InitPair == Init /\ queryFunction = "raw" /\ webstack.meta

NextPair == \E i \in IterIds : NewIterator(i) \/ IteratorNext(i)

SpecPair == InitPair /\ [][NextPair]_vars

\* --------------------------------------------- operations on containers
\* wrapper(self, options=<the caller's record>) of UseGraphQueryResult:
\* GraphQueryResult(queryFunction, self, options=...) and the reshaped
\* response.
WrapperCall ==
    /\ ~qr.built
    /\ \E fail \in BOOLEAN :
        \E r \in {ResultInit("raw", << "self" >>, heap, webstack,
                              maxQueryLimit, fail)} :
        /\ qr' = IF fail THEN NoResult ELSE r.qr
        /\ heap' = IF fail THEN Collect(r.heap, {"qr"}) ELSE r.heap
        /\ response' = IF fail THEN response ELSE WrapperResponse(r.qr)
        /\ obs' = [obs EXCEPT !["qr"] =
                     [@ EXCEPT !.fetches = @ + (IF fail THEN 0 ELSE 1),
                               !.metaSeen = IF ~fail /\ webstack.meta
                                            THEN webstack.size ELSE @,
                               !.firstReq = IF fail THEN @
                                            ELSE [offset |-> r.req.offset,
                                                  first |-> r.req.first]]]
        /\ last' = [ op |-> "wrapper",
                     who |-> "qr", result |-> r.result, item |-> None,
                     fetches |-> 1, failedAt |-> IF fail THEN 1 ELSE 0 ]
    /\ UNCHANGED << maxQueryLimit, webstack, queryFunction, given, iters, call >>

\* iter(queryResult)
ResultIter(i) ==
    /\ qr.built
    /\ IF qr.fetchedAll
       THEN /\ iters' = [iters EXCEPT ![i] = [NoIter EXCEPT !.kind = "list"]]
            /\ heap' = heap
       ELSE LET ref == IterKwargsRef(qr.kwargs, i)
                heap1 == [heap EXCEPT ![i] = heap[qr.kwargs]]
                init == IterInit(qr.queryFunction, qr.args, ref, heap1[ref],
                                 maxQueryLimit)
            IN /\ heap' = [heap1 EXCEPT ![ref] = init.opts]
               /\ iters' = [iters EXCEPT ![i] = init.it]
    /\ obs' = [obs EXCEPT ![i] = NoObs]
    /\ last' = [NoLast EXCEPT !.op = "iter", !.who = i, !.result = "ok"]
    /\ UNCHANGED << maxQueryLimit, webstack, queryFunction, given, qr, response, call >>

\* next() on list.__iter__(queryResult)
ListIteratorNext(i) ==
    /\ iters[i].kind = "list"
    /\ LET it == iters[i]
           more == it.pos < Len(qr.list)
       IN /\ iters' = [iters EXCEPT ![i].pos = IF more THEN it.pos + 1 ELSE it.pos]
          /\ obs' = [obs EXCEPT ![i].yielded =
                        IF more THEN Append(@, qr.list[it.pos + 1]) ELSE @,
                                ![i].stopped = @ \/ ~more]
          /\ last' = [ op |-> "next", who |-> i,
                       result |-> IF more THEN "item" ELSE "stop",
                       item |-> IF more THEN qr.list[it.pos + 1] ELSE None,
                       fetches |-> 0, failedAt |-> 0 ]
    /\ UNCHANGED << maxQueryLimit, webstack, queryFunction, given, heap, qr, response,
                    call >>

\* queryResult.FetchAll()
FetchAll ==
    /\ qr.built
    /\ \E failAt \in 0..MaxFetches :
        \E r \in {FetchAllCall(qr, heap, webstack, maxQueryLimit, failAt,
                              DrainFuel)} :
           /\ qr' = r.qr
           /\ heap' = r.heap
           /\ obs' = [obs EXCEPT !["qr"] =
                        [@ EXCEPT !.fetches = @ + (IF r.result = "ok"
                                                   THEN r.fetches ELSE 0)]]
           /\ last' = [ op |-> "FetchAll", who |-> "qr", result |-> r.result,
                        item |-> None, fetches |-> r.fetches,
                        failedAt |-> IF failAt \in 1..r.fetches
                                     THEN failAt ELSE 0 ]
    /\ UNCHANGED << maxQueryLimit, webstack, queryFunction, given, iters, response,
                    call >>

InitResult == Init /\ queryFunction = "raw"

NextResult ==
    \/ WrapperCall
    \/ ResultIter("it1")
    \/ IteratorNext("it1")
    \/ ListIteratorNext("it1")
    \/ FetchAll

SpecResult == InitResult /\ [][NextResult]_vars

\* ------------------------------------------------- the call executor
ReturnTypes == ScalarTypes \cup {"Body", "Environment"}

FieldValues ==
    { NoFields,
      FieldDict(<< >>),
      FieldList(<< >>),
      FieldList(<< "id", "name" >>),
      FieldDict(<< [name |-> "id", sub |-> NoFields] >>),
      FieldDict(<< [name |-> "bodies",
                    sub |-> FieldDict(<< [name |-> "id", sub |-> NoFields],
                                         [name |-> "name", sub |-> FieldDict(<< >>)] >>)],
                   [name |-> "meta",
                    sub |-> FieldList(<< "totalCount" >>)] >>) }

ParamValues ==
    { << >>,
      << [name |-> "bodyId", type |-> "String!", value |-> 1] >>,
      << [name |-> "bodyId", type |-> "String!", value |-> 1],
         [name |-> "options", type |-> "ListOptionsInput", value |-> 2] >> }

\* self._CallSimpleGraphAPI('query', 'GetBody', params, returnType, fields, timeout)
CallSimpleGraphAPI ==
    /\ ~call.made
    /\ \E returnType \in ReturnTypes, fields \in FieldValues,
       params \in ParamValues, timeout \in {None, 1},
       rpc \in {"error", "value", "missing"} :
        \E queryFields \in {QueryFields(returnType, fields)},
           out \in {CallOutcome(rpc)} :
           /\ call' = [ made |-> TRUE, returnType |-> returnType,
                        fields |-> fields, queryFields |-> queryFields,
                        query |-> QueryString("query", "GetBody", params,
                                              queryFields),
                        variables |-> [k \in 1..Len(params) |->
                                         << params[k].name, params[k].value >>],
                        timeout |-> EffectiveTimeout(timeout),
                        result |-> out.result, attempts |-> out.attempts ]
           /\ last' = [ op |-> "Call", who |-> "client", result |-> out.result,
                        item |-> None, fetches |-> out.attempts,
                        failedAt |-> IF rpc = "error" THEN 1 ELSE 0 ]
           /\ UNCHANGED << maxQueryLimit, webstack, queryFunction, given, heap, iters,
                           qr, response, obs >>

InitCall == Init /\ queryFunction = "raw" /\ webstack.size = 0
                 /\ webstack.kind = "list" /\ webstack.meta
                 /\ maxQueryLimit = 1 /\ heap["caller"].none

NextCall == CallSimpleGraphAPI

SpecCall == InitCall /\ [][NextCall]_vars

\* All operations of one client: the call executor, an adapted query and
\* the iteration and materialization of its result.
InitClient ==
    /\ Init
    /\ queryFunction = "raw"
    /\ webstack = [size |-> MaxData, kind |-> "list", meta |-> TRUE]
    /\ maxQueryLimit = MaxPage
    /\ given.none

NextClient == NextResult \/ NextCall

SpecClient == InitClient /\ [][NextClient]_vars

\* A caller that keeps calling next() on one iterator, and an adapted
\* call followed by FetchAll(), over list pages served by a query function
\* that does not fail.
IteratorNextOk(i) == IteratorNext(i) /\ last'.failedAt = 0
WrapperCallOk == WrapperCall /\ last'.failedAt = 0
FetchAllOk == FetchAll /\ last'.failedAt = 0

InitTerm == Init /\ queryFunction = "raw" /\ webstack.kind = "list"
                 /\ webstack.meta

NextTerm ==
    \/ NewIterator("it1")
    \/ IteratorNextOk("it1")
    \/ WrapperCallOk
    \/ FetchAllOk

\* The caller constructs the iterator and does not stop calling next().
SpecTerm ==
    /\ InitTerm
    /\ [][NextTerm]_vars
    /\ WF_vars(NewIterator("it1"))
    /\ WF_vars(IteratorNextOk("it1"))

\* ===================================================================
\* Properties
\* ===================================================================
\* The caller's options after the defaults are applied, read off the record
\* the caller wrote.
GivenOffset == IF given.none \/ given.offset = None THEN 0 ELSE given.offset
GivenFirst == IF given.none \/ given.first = None THEN 0 ELSE given.first
PageSize ==
    IF GivenFirst > 0 THEN Min(GivenFirst, maxQueryLimit) ELSE maxQueryLimit

\* The dataset items from position o on, at most L of them when L > 0.
Leading(o, L, D) ==
    [k \in 1..Max(0, IF L > 0 THEN Min(L, D - o) ELSE D - o) |-> o + k]

IsPrefix(s, t) == Len(s) <= Len(t) /\ s = SubSeq(t, 1, Len(s))

\* C1: over a static dataset of D items served as list pages, an iterator
\* built with offset 0 and first L yields the dataset's leading items in
\* order, none skipped or repeated, and when next() has signalled
\* end-of-sequence it has yielded exactly min(L, D) items (D when L = 0).
C1_LeadingItems ==
    \A i \in IterIds :
        (iters[i].kind = "paging" /\ webstack.kind = "list" /\ GivenOffset = 0)
        =>
        LET D == webstack.size
            n == IF GivenFirst > 0 THEN Min(GivenFirst, D) ELSE D
            want == [k \in 1..n |-> k]
        IN /\ IsPrefix(obs[i].yielded, want)
           /\ obs[i].stopped => obs[i].yielded = want

\* C1 witness: limit 3 over 4 items with pages of 2: the second page is cut
\* to one item and the run ends after 3 items.
C1_Witness ==
    /\ webstack.kind = "list" /\ webstack.size = 4
    /\ ~given.none /\ given.offset = 0 /\ given.first = 3
    /\ maxQueryLimit = 2
    /\ obs["it1"].stopped
    /\ obs["it1"].yielded = << 1, 2, 3 >>

CeilDiv(a, b) == (a + b - 1) \div b

\* C2 as stated: with no limit, a completed run made exactly
\* ceil(D / maxQueryLimit) page fetches.
C2_CeilFetches ==
    \A i \in IterIds :
        (iters[i].kind = "paging" /\ webstack.kind = "list"
            /\ GivenOffset = 0 /\ GivenFirst = 0 /\ obs[i].stopped)
        => obs[i].fetches = CeilDiv(webstack.size, maxQueryLimit)

\* C2 amended: with no limit, a completed run yielded the D items and made
\* exactly floor(D / maxQueryLimit) + 1 page fetches: the run ends on the
\* first page shorter than maxQueryLimit, which is empty when D is a
\* multiple of maxQueryLimit.
C2_FloorPlusOneFetches ==
    \A i \in IterIds :
        (iters[i].kind = "paging" /\ webstack.kind = "list"
            /\ GivenOffset = 0 /\ GivenFirst = 0 /\ obs[i].stopped)
        => /\ obs[i].fetches = (webstack.size \div maxQueryLimit) + 1
           /\ Len(obs[i].yielded) = webstack.size
           /\ iters[i].shouldStop

\* C2 witness: 3 items in pages of 2: two fetches (2 and 1 items).
C2_Witness ==
    /\ webstack.kind = "list" /\ webstack.size = 3 /\ maxQueryLimit = 2
    /\ GivenOffset = 0 /\ GivenFirst = 0
    /\ obs["it1"].stopped /\ obs["it1"].fetches = 2
    /\ obs["it1"].yielded = << 1, 2, 3 >>

\* C3: when the query function answers with '__typename', the fetch leaves
\* the iterator exhausted with keyName '__typename', and the scalar is the
\* only item the iterator ever yields.
C3_ScalarOnce ==
    \A i \in IterIds :
        (iters[i].kind = "paging" /\ webstack.kind = "scalar"
            /\ obs[i].fetches > 0)
        => /\ iters[i].keyName = "__typename"
           /\ iters[i].shouldStop
           /\ obs[i].yielded = << TypenameValue >>

\* C3 witness: a scalar response with a page size above 1: one item, then
\* end-of-sequence.
C3_Witness ==
    /\ webstack.kind = "scalar" /\ maxQueryLimit = 2 /\ GivenFirst = 0
    /\ obs["it1"].stopped
    /\ obs["it1"].yielded = << TypenameValue >>
    /\ iters["it1"].keyName = "__typename"

\* The container's options dictionary as the constructor left it: the
\* caller's values with the defaults applied, `first` not clamped.
StoredOptions == [none |-> FALSE, offset |-> GivenOffset, first |-> GivenFirst]

\* C4: a FetchAll() on a container that is already materialized (by an
\* earlier FetchAll() or by the scalar response at construction) makes no
\* page fetch, succeeds and changes neither the container nor its arguments.
C4_FetchAllIdempotent ==
    [][ (qr.fetchedAll /\ last'.op = "FetchAll")
        => /\ last'.fetches = 0
           /\ last'.result = "ok"
           /\ qr' = qr
           /\ heap' = heap
           /\ obs'["qr"].fetches = obs["qr"].fetches ]_vars

\* C4 witness: a FetchAll() that made no fetch on a list container holding
\* the 4 items an earlier FetchAll() stored.
C4_Witness ==
    /\ webstack.kind = "list"
    /\ last.op = "FetchAll" /\ last.fetches = 0 /\ last.result = "ok"
    /\ qr.fetchedAll /\ qr.list = << 1, 2, 3, 4 >>
    /\ obs["qr"].fetches > 1

\* C5: once FetchAll() has succeeded, the container is marked materialized;
\* over list pages it stores the dataset items from the caller's offset on,
\* in order, at most L of them when L > 0; and what it stores is what an
\* iterator over the container's arguments has yielded when it has run to
\* its end.
C5_FetchAllStoresRun ==
    /\ (last.op = "FetchAll" /\ last.result = "ok") => qr.fetchedAll
    /\ (qr.built /\ qr.fetchedAll /\ webstack.kind = "list")
       => qr.list = Leading(GivenOffset, GivenFirst, webstack.size)
    /\ (qr.built /\ qr.fetchedAll /\ webstack.kind = "nodata")
       => qr.list = << >>
    /\ \A i \in IterIds :
          (qr.built /\ qr.fetchedAll /\ iters[i].kind = "paging"
              /\ obs[i].stopped)
          => obs[i].yielded = qr.list

\* C5 witness: offset 1, limit 3 over 4 items with pages of 2: FetchAll()
\* stored items 2, 3, 4 out of two pages.
C5_Witness ==
    /\ webstack.kind = "list" /\ webstack.size = 4 /\ maxQueryLimit = 2
    /\ GivenOffset = 1 /\ GivenFirst = 3
    /\ last.op = "FetchAll" /\ last.result = "ok" /\ last.fetches = 2
    /\ qr.fetchedAll /\ qr.list = << 2, 3, 4 >>

\* C6: totalCount of an iterator or a container is None while no response
\* to it carried meta.totalCount, and otherwise the value of the last
\* response that did: the dataset size D, whatever the limit, the offset and
\* the page size.
C6_TotalCount ==
    /\ \A i \in IterIds :
          iters[i].kind = "paging"
          => /\ iters[i].totalCount = obs[i].metaSeen
             /\ iters[i].totalCount \in {None, webstack.size}
             /\ (obs[i].fetches > 0 /\ webstack.meta)
                => iters[i].totalCount = webstack.size
    /\ qr.built
       => /\ qr.totalCount = obs["qr"].metaSeen
          /\ qr.totalCount = IF webstack.meta THEN webstack.size ELSE None

\* C6 witness: limit 1 at offset 1 over 4 items: the container and an
\* iterator that yielded one item both report totalCount 4.
C6_Witness ==
    /\ webstack.size = 4 /\ GivenFirst = 1 /\ GivenOffset = 1
    /\ qr.built /\ qr.totalCount = 4
    /\ iters["it1"].kind = "paging" /\ iters["it1"].totalCount = 4
    /\ obs["it1"].yielded = << 2 >>

\* Iterator j and the dictionaries it reads are the same after the step.
Untouched(j) ==
    /\ iters'[j] = iters[j]
    /\ obs'[j] = obs[j]
    /\ heap'[j] = heap[j]
    /\ heap'[iters[j].kwargs] = heap[iters[j].kwargs]

\* C7: of two iterators built from the same query function and the same
\* options record, a construction or a next() of one changes neither the
\* other iterator (offset, page size, limit, returned count, buffer) nor
\* the caller's record, and over list pages each yields the run it yields
\* alone: the items from the caller's offset on, limited by the caller's
\* first.
C7_Independent ==
    /\ [][ \A i \in IterIds :
              (last'.who = i /\ last'.op \in {"new", "next"})
              => /\ \A j \in IterIds \ {i} : Untouched(j)
                 /\ heap'["caller"] = heap["caller"] ]_vars
    /\ [](/\ heap["caller"] = given
          /\ \A i \in IterIds :
                (iters[i].kind = "paging" /\ webstack.kind = "list")
                => LET want == Leading(GivenOffset, GivenFirst, webstack.size)
                   IN /\ IsPrefix(obs[i].yielded, want)
                      /\ obs[i].stopped => obs[i].yielded = want)

\* C7 witness: two iterators over the same record, offset 1 and no limit,
\* pages of 1: one has fetched three pages, the other one, and neither has
\* ended.
C7_Witness ==
    /\ webstack.kind = "list" /\ webstack.size = 4 /\ maxQueryLimit = 1
    /\ GivenOffset = 1 /\ GivenFirst = 0
    /\ obs["it1"].yielded = << 2, 3, 4 >> /\ ~obs["it1"].stopped
    /\ obs["it2"].yielded = << 2 >> /\ ~obs["it2"].stopped
    /\ last.who = "it2"
    /\ heap["it1"].offset = 4 /\ heap["it2"].offset = 2

\* C8: an iterator obtained from a container that is not materialized
\* starts from the container's original arguments: its limit is the
\* caller's first, and its first fetch asks for the caller's offset with the
\* page size clamped from the caller's first.  The container keeps its
\* arguments as constructed, and a next() on any iterator changes neither
\* the container nor its arguments.  An iterator obtained from a
\* materialized container fetches nothing and yields the stored items.
C8_IterationFromContainer ==
    /\ [](/\ qr.built => (qr.kwargs = "qr" /\ heap["qr"] = StoredOptions)
          /\ \A i \in IterIds :
                /\ iters[i].kind = "paging"
                   => /\ iters[i].totalLimit = GivenFirst
                      /\ obs[i].fetches = 0
                         => heap[iters[i].kwargs] =
                               [StoredOptions EXCEPT !.first = PageSize]
                      /\ obs[i].fetches > 0
                         => obs[i].firstReq =
                               [offset |-> GivenOffset, first |-> PageSize]
                /\ iters[i].kind = "list"
                   => /\ qr.fetchedAll
                      /\ obs[i].fetches = 0
                      /\ IsPrefix(obs[i].yielded, qr.list)
                      /\ obs[i].stopped => obs[i].yielded = qr.list)
    /\ [][ last'.op = "next" => (qr' = qr /\ heap'["qr"] = heap["qr"]) ]_vars

\* C8 witness: a container built with offset 1 and limit 3 over 4 items in
\* pages of 2, holding its first page; an iterator taken from it has run
\* to the end and yielded 2, 3, 4.
C8_Witness ==
    /\ webstack.kind = "list" /\ webstack.size = 4 /\ maxQueryLimit = 2
    /\ GivenOffset = 1 /\ GivenFirst = 3
    /\ qr.built /\ ~qr.fetchedAll /\ qr.items = << 2, 3 >>
    /\ iters["it1"].kind = "paging" /\ obs["it1"].stopped
    /\ obs["it1"].yielded = << 2, 3, 4 >>
    /\ obs["it1"].firstReq = [offset |-> 1, first |-> 2]

\* C9: the mapping returned by an adapted function holds '__typename' bound
\* to the scalar and no data key when the response was scalar, the data key
\* (bound to the container) when the first page had one, neither when it
\* had none; and it holds meta.totalCount exactly when the first page
\* carried it, with its value.
C9_WrapperShape ==
    response.made
    => /\ qr.built
       /\ webstack.kind = "scalar"
          => (response.typename = TypenameValue /\ response.key = NoKey)
       /\ webstack.kind = "list"
          => (response.typename = None /\ response.key = DataKey)
       /\ webstack.kind = "nodata"
          => (response.typename = None /\ response.key = NoKey)
       /\ response.meta = webstack.meta
       /\ response.totalCount = IF webstack.meta THEN webstack.size ELSE None

\* C9 witness: an adapted list query over an empty dataset: the mapping
\* holds the data key and meta.totalCount = 0.
C9_Witness ==
    /\ response.made /\ webstack.kind = "list" /\ webstack.size = 0
    /\ webstack.meta
    /\ response.key = DataKey /\ response.meta /\ response.totalCount = 0

\* C10: when the RPC collaborator or the query function raises during
\* Call, next(), FetchAll() or an adapted call, the operation ends with
\* that error, and the failed attempt is the last one it makes.
C10_ErrorsPropagate ==
    last.failedAt > 0
    => /\ last.result = "error"
       /\ last.fetches = last.failedAt
       /\ last.op \in {"next", "wrapper", "Call"} => last.fetches = 1

\* C10 witness: FetchAll() whose third page fetch failed.
C10_Witness ==
    /\ last.op = "FetchAll" /\ last.failedAt = 3 /\ last.result = "error"
    /\ ~qr.fetchedAll

\* The selections of FieldValues as _StringifyQueryFields renders them,
\* written out.
C11_Rendered ==
    { << FieldList(<< "id", "name" >>), "{id, name}" >>,
      << FieldDict(<< [name |-> "id", sub |-> NoFields] >>), "{id}" >>,
      << FieldDict(<< [name |-> "bodies",
                       sub |-> FieldDict(<< [name |-> "id", sub |-> NoFields],
                                            [name |-> "name", sub |-> FieldDict(<< >>)] >>)],
                      [name |-> "meta",
                       sub |-> FieldList(<< "totalCount" >>)] >>),
         "{bodies {id, name}, meta {totalCount}}" >> }

\* C11: the selection the query builder renders is empty when the return
\* type is one of Int, Float, String, Boolean, ID, Data, Any, Void, DateTime,
\* whatever fields were supplied; exactly '{ __typename }' when the return
\* type is not scalar and fields is None or empty; and the rendered field
\* tree otherwise.
C11_Selection ==
    call.made
    => LET scalar == call.returnType \in
                        {"Int", "Float", "String", "Boolean", "ID", "Data",
                         "Any", "Void", "DateTime"}
           empty == call.fields.kind = "none" \/ call.fields.entries = << >>
       IN /\ scalar => call.queryFields = ""
          /\ (~scalar /\ empty) => call.queryFields = "{ __typename }"
          /\ (~scalar /\ ~empty)
             => << call.fields, call.queryFields >> \in C11_Rendered

\* C11 witness: a DateTime-typed call made with a nested selection, which
\* is ignored.
C11_Witness ==
    /\ call.made /\ call.returnType = "DateTime"
    /\ call.fields.kind = "dict" /\ Len(call.fields.entries) = 2
    /\ call.queryFields = ""

\* C12: once a next() of an iterator has signalled end-of-sequence, every
\* later next() of that iterator signals end-of-sequence again, makes no
\* page fetch and yields no item, whichever way the end was reached.
C12_EndIsTerminal ==
    [][ \A i \in IterIds :
          (iters[i].kind = "paging" /\ obs[i].stopped
              /\ last'.op = "next" /\ last'.who = i)
          => /\ last'.result = "stop"
             /\ last'.fetches = 0
             /\ obs'[i].fetches = obs[i].fetches
             /\ obs'[i].yielded = obs[i].yielded ]_vars

\* C12 witness: 3 items in pages of 2 ended on the short second page, and
\* a further next() signalled the end again without a fetch.
C12_Witness ==
    /\ webstack.kind = "list" /\ webstack.size = 3 /\ maxQueryLimit = 2
    /\ GivenOffset = 0 /\ GivenFirst = 0
    /\ iters["it1"].shouldStop /\ obs["it1"].stopped
    /\ obs["it1"].yielded = << 1, 2, 3 >> /\ obs["it1"].fetches = 2
    /\ last.op = "next" /\ last.result = "stop" /\ last.fetches = 0

\* C13: the page size of an iterator is fixed by its construction, as
\* min(L, maxQueryLimit) when the caller's first L > 0 and maxQueryLimit
\* when L = 0, so it lies in 1..maxQueryLimit; no later step changes it, a
\* change of maxQueryLimit included, and every fetch of the iterator is
\* issued with it.
C13_PageSizeFixed ==
    /\ [][ \A i \in IterIds :
              (last'.op = "new" /\ last'.who = i)
              => LET f == heap'[iters'[i].kwargs].first
                 IN /\ f = IF GivenFirst > 0
                           THEN Min(GivenFirst, maxQueryLimit)
                           ELSE maxQueryLimit
                    /\ 1 <= f /\ f <= maxQueryLimit ]_vars
    /\ [][ \A i \in IterIds :
              (iters[i].kind = "paging" /\ iters'[i].kind = "paging")
              => heap'[iters'[i].kwargs].first = heap[iters[i].kwargs].first
       ]_vars
    /\ [](\A i \in IterIds :
              iters[i].kind = "paging"
              => obs[i].firsts \subseteq {heap[iters[i].kwargs].first})

\* C13 witness: no limit, built while maxQueryLimit was 2; maxQueryLimit is
\* now 1 and the last next() fetched a page of 2 at offset 2.
C13_Witness ==
    /\ webstack.kind = "list" /\ webstack.size = 4 /\ GivenFirst = 0
    /\ maxQueryLimit = 1
    /\ heap["it1"].first = 2 /\ obs["it1"].firsts = {2}
    /\ last.op = "next" /\ last.who = "it1" /\ last.fetches = 1
    /\ obs["it1"].fetches = 2 /\ obs["it1"].yielded = << 1, 2, 3 >>

\* The number of items the query function returns to a request for `f`
\* items at offset `o`.
Received(o, f) ==
    IF webstack.kind = "list" THEN Len(Page(webstack.size, o, f))
    ELSE IF webstack.kind = "scalar" THEN 1
    ELSE 0

\* The offset reached from `o` by k fetches of page size `f`, each
\* advancing by what it received.
RECURSIVE OffsetAfter(_, _, _)
OffsetAfter(o, f, k) ==
    IF k = 0 THEN o ELSE OffsetAfter(o + Received(o, f), f, k - 1)

\* C14: the k-th fetch of an iterator is issued with the initial offset
\* plus the number of items the fetches 1..k-1 received (before any cut to
\* the limit), so the pages are contiguous and do not overlap; and a
\* next() issues a fetch only when the buffer is empty and the iterator is
\* not exhausted.
C14_Contiguous ==
    /\ [](\A i \in IterIds :
            iters[i].kind = "paging"
            => LET opts == heap[iters[i].kwargs] IN
               /\ Len(obs[i].offsets) = obs[i].fetches
               /\ \A k \in 1..Len(obs[i].offsets) :
                     obs[i].offsets[k] =
                        OffsetAfter(GivenOffset, opts.first, k - 1)
               /\ opts.offset =
                     OffsetAfter(GivenOffset, opts.first, obs[i].fetches))
    /\ [][ \A i \in IterIds :
              (last'.op = "next" /\ last'.who = i /\ last'.fetches > 0)
              => /\ iters[i].items = << >>
                 /\ ~iters[i].shouldStop ]_vars

\* C14 witness: limit 3 over 4 items in pages of 2: fetches at offsets 0
\* and 2; the second page's 2 items advanced the offset to 4 although only
\* one of them was kept.
C14_Witness ==
    /\ webstack.kind = "list" /\ webstack.size = 4 /\ maxQueryLimit = 2
    /\ GivenOffset = 0 /\ GivenFirst = 3
    /\ obs["it1"].offsets = << 0, 2 >>
    /\ heap["it1"].offset = 4
    /\ obs["it1"].yielded = << 1, 2, 3 >>

\* C15: an adapted call constructs one container with exactly one page
\* fetch, issued at the caller's offset with page size min(L, maxQueryLimit)
\* (maxQueryLimit when L = 0); the container then holds that page's items
\* (the scalar, when the response is scalar), and its fetch count stays at
\* one through every operation other than FetchAll(): iterating it fetches
\* on the iterator's account.
C15_OneFetchAtConstruction ==
    /\ [][ last'.op = "wrapper"
           => /\ last'.fetches = 1
              /\ last'.result = "ok"
                 => /\ qr'.built
                    /\ obs'["qr"].fetches = 1
                    /\ obs'["qr"].firstReq =
                          [offset |-> GivenOffset, first |-> PageSize]
                    /\ qr'.currentOffset = GivenOffset
                    /\ webstack.kind = "list"
                       => /\ qr'.items =
                                Leading(GivenOffset, PageSize, webstack.size)
                          /\ qr'.list = << >>
                          /\ ~qr'.fetchedAll
                    /\ webstack.kind = "scalar"
                       => /\ qr'.list = << TypenameValue >>
                          /\ qr'.fetchedAll
                    /\ webstack.kind = "nodata"
                       => /\ qr'.items = << >>
                          /\ qr'.list = << >> ]_vars
    /\ [][ last'.op \notin {"wrapper", "FetchAll"}
           => /\ obs'["qr"].fetches = obs["qr"].fetches
              /\ qr'.items = qr.items ]_vars
    /\ [](qr.built => obs["qr"].fetches >= 1)

\* C15 witness: an adapted call with offset 1 and limit 3 over 4 items,
\* pages of 2: the container holds items 2 and 3 after one fetch, and an
\* iterator taken from it has since fetched two pages of its own.
C15_Witness ==
    /\ webstack.kind = "list" /\ webstack.size = 4 /\ maxQueryLimit = 2
    /\ GivenOffset = 1 /\ GivenFirst = 3
    /\ qr.built /\ ~qr.fetchedAll
    /\ qr.items = << 2, 3 >> /\ qr.currentOffset = 1
    /\ obs["qr"].fetches = 1
    /\ obs["qr"].firstReq = [offset |-> 1, first |-> 2]
    /\ obs["it1"].fetches = 2

\* C16: for an iterator with limit L > 0, the count of returned items plus
\* the number of buffered items never exceeds L, and the count always equals
\* the number of items next() has returned.
C16_CountWithinLimit ==
    \A i \in IterIds :
        iters[i].kind = "paging"
        => /\ iters[i].count = Len(obs[i].yielded)
           /\ iters[i].totalLimit > 0
              => /\ iters[i].totalLimit = GivenFirst
                 /\ iters[i].count + Len(iters[i].items) <= iters[i].totalLimit
                 /\ iters[i].count <= iters[i].totalLimit

\* C16 witness: limit 3 over 4 items in pages of 2: after the second fetch
\* was cut to one item, 3 items are returned and none is buffered.
C16_Witness ==
    /\ webstack.kind = "list" /\ webstack.size = 4 /\ maxQueryLimit = 2
    /\ GivenFirst = 3 /\ GivenOffset = 0
    /\ iters["it1"].kind = "paging" /\ iters["it1"].totalLimit = 3
    /\ iters["it1"].count = 3 /\ iters["it1"].items = << >>
    /\ obs["it1"].fetches = 2 /\ iters["it1"].shouldStop

\* The most page fetches a run over the dataset from the caller's offset
\* needs: the full pages and the page that ends it.
FetchBound == (Max(0, webstack.size - GivenOffset) \div PageSize) + 1

\* C17: over list pages of a finite static dataset served without
\* failure, a caller that keeps calling next() eventually receives
\* end-of-sequence, after no more than FetchBound page fetches, whatever
\* the limit, the offset and maxQueryLimit; and every FetchAll() returns,
\* with the container materialized, after no more fetches than that.
C17_Terminates ==
    /\ <>(iters["it1"].kind = "paging" /\ obs["it1"].stopped)
    /\ [](iters["it1"].kind = "paging"
             => obs["it1"].fetches <= FetchBound)
    /\ [](last.op = "FetchAll"
             => /\ last.result = "ok"
                /\ qr.fetchedAll
                /\ last.fetches <= FetchBound)

\* C17 witness: no limit, 4 items in pages of 1: end-of-sequence after 5
\* fetches, the last one empty, and a FetchAll() that made 5 fetches too.
C17_Witness ==
    /\ webstack.kind = "list" /\ webstack.size = 4 /\ maxQueryLimit = 1
    /\ GivenOffset = 0 /\ GivenFirst = 0
    /\ obs["it1"].stopped /\ obs["it1"].fetches = 5
    /\ obs["it1"].yielded = << 1, 2, 3, 4 >>
    /\ last.op = "FetchAll" /\ last.fetches = 5 /\ qr.fetchedAll

\* C18: a next() in which the query function raises leaves the iterator
\* as it was: offset, page size, the (empty) buffer, returned count,
\* exhausted flag, totalCount and keyName; the next() that follows it and
\* is answered issues its fetch at that same offset, and over list pages
\* returns the dataset item that follows the ones already yielded.
C18_FailedFetchKeepsState ==
    /\ [][ \A i \in IterIds :
              (last'.op = "next" /\ last'.who = i /\ last'.result = "error")
              => /\ iters'[i] = iters[i]
                 /\ heap'[iters[i].kwargs] = heap[iters[i].kwargs]
                 /\ iters[i].items = << >>
                 /\ obs'[i].yielded = obs[i].yielded
                 /\ obs'[i].stopped = obs[i].stopped ]_vars
    /\ [][ \A i \in IterIds :
              (/\ last.op = "next" /\ last.who = i /\ last.result = "error"
               /\ last'.op = "next" /\ last'.who = i /\ last'.result # "error")
              => /\ last'.fetches = 1
                 /\ obs'[i].offsets =
                       Append(obs[i].offsets, heap[iters[i].kwargs].offset)
                 /\ (webstack.kind = "list" /\ last'.result = "item")
                    => last'.item = GivenOffset + Len(obs[i].yielded) + 1
       ]_vars

\* C18 witness: after the first page of 2 was yielded, the fetch of the
\* second page failed: the iterator still holds offset 2, an empty buffer
\* and a count of 2, and is not exhausted.
C18_Witness ==
    /\ webstack.kind = "list" /\ webstack.size = 4 /\ maxQueryLimit = 2
    /\ GivenOffset = 0 /\ GivenFirst = 0
    /\ last.op = "next" /\ last.who = "it1" /\ last.result = "error"
    /\ obs["it1"].yielded = << 1, 2 >> /\ obs["it1"].fetches = 1
    /\ heap["it1"].offset = 2 /\ heap["it1"].first = 2
    /\ iters["it1"].items = << >> /\ iters["it1"].count = 2
    /\ ~iters["it1"].shouldStop /\ iters["it1"].totalCount = 4

\* C19: a FetchAll() in which a page fetch fails leaves the container not
\* materialized, with the stored sequence, the first page and the
\* arguments it had before the call; the FetchAll() that follows it and
\* succeeds runs from the caller's offset: over list pages it stores the
\* items from that offset on, limited by the caller's first, and without a
\* limit it makes the fetches of a whole run.
C19_FailedFetchAllKeepsContainer ==
    /\ [][ (last'.op = "FetchAll" /\ last'.result = "error")
           => /\ ~qr.fetchedAll /\ ~qr'.fetchedAll
              /\ qr' = qr
              /\ heap'["qr"] = heap["qr"]
              /\ obs'["qr"].fetches = obs["qr"].fetches ]_vars
    /\ [][ (/\ last.op = "FetchAll" /\ last.result = "error"
            /\ last'.op = "FetchAll" /\ last'.result = "ok")
           => /\ qr'.fetchedAll
              /\ heap'["qr"] = StoredOptions
              /\ webstack.kind = "list"
                 => qr'.list = Leading(GivenOffset, GivenFirst, webstack.size)
              /\ (webstack.kind = "list" /\ GivenFirst = 0)
                 => last'.fetches = FetchBound ]_vars

\* C19 witness: FetchAll() over 4 items from offset 1 in pages of 1 failed
\* on its third fetch: the container is not materialized, stores nothing
\* and still holds its first page.
C19_Witness ==
    /\ webstack.kind = "list" /\ webstack.size = 4 /\ maxQueryLimit = 1
    /\ GivenOffset = 1 /\ GivenFirst = 0
    /\ last.op = "FetchAll" /\ last.result = "error" /\ last.failedAt = 3
    /\ qr.built /\ ~qr.fetchedAll /\ qr.list = << >>
    /\ qr.items = << 2 >> /\ heap["qr"] = StoredOptions

=============================================================================
